---- MODULE Spec2Model ----
(***************************************************************************)
(* Model of the MIDI wire-protocol engine of ff-media:                     *)
(*   - MIDIMessage        (codec helpers: type, status, validateSysEx)     *)
(*   - MIDIExchange       (request/response exchange over input/output)    *)
(*   - MIDIChannelState / MIDIDeviceState (live channel snapshot)          *)
(* JavaScript `undefined`/`null` numbers are modelled by Undef (-1), an    *)
(* absent array by the empty sequence.                                     *)
(***************************************************************************)
EXTENDS Integers, Sequences, FiniteSets, TLC

\* ------------------------------------------------------------------------
\* Bounds of the model
\* ------------------------------------------------------------------------
\* start() calls made by the callers, all exchanges together
MaxStarts == 2
\* frames delivered on the device's input
MaxFrames == 3
\* update() and reset() calls made on the device state
MaxUpdates == 4

\* ------------------------------------------------------------------------
\* Values
\* ------------------------------------------------------------------------
Undef == -1

\* MIDIStatus.SystemExclusive
SystemExclusive == 240
\* device id that matches any device in validateSysEx
AnyDevice == 127
\* header byte that matches any byte in validateSysEx
AnyByte == 255
\* MIDIDevice: default device id
DefaultDeviceId == 16

\* b & 0xf0, b & 0x0f for a byte b
HiNibble(b) == b - (b % 16)
LoNibble(b) == b % 16

\* data[k] of a JavaScript array (0-based); undefined beyond the end
At(data, k) == IF k >= 0 /\ k < Len(data) THEN data[k + 1] ELSE Undef

\* ------------------------------------------------------------------------
\* MIDIMessage (codec)
\* ------------------------------------------------------------------------
\* type that tests the high nibble before the exact system-exclusive byte
type_nibbleFirst(firstByte) ==
    IF HiNibble(firstByte) = 240 THEN "System"
    ELSE IF firstByte = 240 THEN "SysEx"
    ELSE "Channel"

\* MIDIMessage.type(firstByte)
type(firstByte) ==
    IF firstByte = 240 THEN "SysEx"
    ELSE IF HiNibble(firstByte) = 240 THEN "System"
    ELSE "Channel"

\* MIDIMessage.status(firstByte)
status(firstByte) ==
    IF HiNibble(firstByte) = 240 THEN firstByte ELSE HiNibble(firstByte)

\* validateSysEx without the any-device value 0x7f
validateSysEx_noWildcard(data, id, deviceId, header) ==
    LET i == IF Len(id) = 1 THEN 2 ELSE 4
        idOk == IF Len(id) = 1
                THEN At(data, 1) = id[1]
                ELSE /\ At(data, 1) = At(id, 0)
                     /\ At(data, 2) = At(id, 1)
                     /\ At(data, 3) = At(id, 2)
        devOk == ~(deviceId # Undef /\ At(data, i) # deviceId)
        hdrOk == \A j \in 0 .. (Len(header) - 1) :
                    ~(header[j + 1] # AnyByte /\ header[j + 1] # At(data, i + j + 1))
    IN  /\ At(data, 0) = SystemExclusive
        /\ idOk
        /\ devOk
        /\ hdrOk

\* validateSysEx that matches the header from the device-id byte on
validateSysEx_headerAtDeviceId(data, id, deviceId, header) ==
    LET i == IF Len(id) = 1 THEN 2 ELSE 4
        idOk == IF Len(id) = 1
                THEN At(data, 1) = id[1]
                ELSE /\ At(data, 1) = At(id, 0)
                     /\ At(data, 2) = At(id, 1)
                     /\ At(data, 3) = At(id, 2)
        devOk == ~(deviceId # Undef /\ deviceId # AnyDevice /\ At(data, i) # deviceId)
        hdrOk == \A j \in 0 .. (Len(header) - 1) :
                    ~(header[j + 1] # AnyByte /\ header[j + 1] # At(data, i + j))
    IN  /\ At(data, 0) = SystemExclusive
        /\ idOk
        /\ devOk
        /\ hdrOk

\* MIDIMessage.validateSysEx(data, id, deviceId, header).
\* id: <<n>> for a number, <<a, b, c>> for an extended id array;
\* deviceId: a number or Undef; header: a sequence, <<>> when omitted.
validateSysEx(data, id, deviceId, header) ==
    LET i == IF Len(id) = 1 THEN 2 ELSE 4
        idOk == IF Len(id) = 1
                THEN At(data, 1) = id[1]
                ELSE /\ At(data, 1) = At(id, 0)
                     /\ At(data, 2) = At(id, 1)
                     /\ At(data, 3) = At(id, 2)
        devOk == ~(deviceId # Undef /\ deviceId # AnyDevice /\ At(data, i) # deviceId)
        hdrOk == \A j \in 0 .. (Len(header) - 1) :
                    ~(header[j + 1] # AnyByte /\ header[j + 1] # At(data, i + j + 1))
    IN  /\ At(data, 0) = SystemExclusive
        /\ idOk
        /\ devOk
        /\ hdrOk

\* MIDIMessage.universalNRTSysEx(deviceId, sid1, sid2, data).
\* sid2: a number or Undef when omitted; data: a sequence, <<>> when omitted
\* (concat of an empty array adds nothing)
universalNRTSysEx(deviceId, sid1, sid2, data) ==
    LET message == <<SystemExclusive, 126, deviceId, sid1>>
        withSid2 == IF sid2 # Undef THEN Append(message, sid2) ELSE message
    IN  withSid2 \o data

\* MIDIMessage.universalRTSysEx(deviceId, sid1, sid2, data)
universalRTSysEx(deviceId, sid1, sid2, data) ==
    <<SystemExclusive, 126, deviceId, sid1, sid2>> \o data

\* the static default of MIDIMessage.convertZeroVelToNoteOff
convertZeroVelToNoteOff == TRUE

\* constructor whose conversion writes the Note-Off status without the channel
NewMIDIMessage_dropsChannel(data, convert) ==
    IF convert /\ Len(data) = 3 /\ HiNibble(At(data, 0)) = 144 /\ At(data, 2) = 0
    THEN [data EXCEPT ![1] = 128]
    ELSE data

\* constructor whose conversion does not test the frame length
NewMIDIMessage_anyLength(data, convert) ==
    IF convert /\ HiNibble(At(data, 0)) = 144 /\ At(data, 2) = 0
    THEN [data EXCEPT ![1] = 128 + LoNibble(At(data, 0))]
    ELSE data

\* new MIDIMessage(data) with MIDIMessage.convertZeroVelToNoteOff = convert:
\* the frame the message holds (a Note-On with velocity 0 is rewritten in
\* place to a Note-Off of the same channel when the flag is set)
NewMIDIMessage(data, convert) ==
    IF convert /\ Len(data) = 3 /\ HiNibble(At(data, 0)) = 144 /\ At(data, 2) = 0
    THEN [data EXCEPT ![1] = 128 + LoNibble(At(data, 0))]
    ELSE data

\* ------------------------------------------------------------------------
\* MIDIDevice owning the exchanges
\* ------------------------------------------------------------------------
\* device.manufacturerId, device.deviceId (constructor: deviceId || 0x10)
DeviceManufacturerId == <<67>>
DeviceDeviceId == DefaultDeviceId

\* ------------------------------------------------------------------------
\* Exchange events used in the model
\* ------------------------------------------------------------------------
\* identity request  F0 7E 10 06 01 F7
ReqIdentity == <<240, 126, 16, 6, 1, 247>>
\* a second request  F0 43 10 01 F7
ReqDump == <<240, 67, 16, 1, 247>>

\* required response {id: 0x43, header: [0x7E, 0xFF, 0x06, 0x02]}
DescIdentity == [id |-> <<67>>, deviceId |-> Undef, header |-> <<126, 255, 6, 2>>]
\* required response {deviceId: 0x7F}: any sysex frame of the device's manufacturer
DescAny == [id |-> <<>>, deviceId |-> AnyDevice, header |-> <<>>]

\* required response {id: 0x43, deviceId: 0x00}
DescZero == [id |-> <<67>>, deviceId |-> 0, header |-> <<>>]

\* IExchangeEvent: response present (a descriptor or a list) or omitted
Event(req, present, items) == [request |-> req, present |-> present, items |-> items]

EventConfigs ==
    { <<>>,
      << Event(ReqIdentity, TRUE, <<DescIdentity>>) >>,
      << Event(ReqIdentity, TRUE, <<DescIdentity, DescAny>>),
         Event(ReqDump, FALSE, <<>>) >>,
      << Event(ReqDump, TRUE, <<DescZero>>) >>,
      << Event(ReqDump, TRUE, <<>>) >> }

\* inbound frames
FrameIdentity == <<240, 67, 16, 126, 0, 6, 2>>
FrameOther == <<240, 67, 32, 0>>
FrameSensing == <<254>>
Frames == { FrameIdentity, FrameOther, FrameSensing }

ExchangeIds == {1, 2}

VARIABLES
    exchanges,   \* per MIDIExchange instance: its private fields
    listeners,   \* "midimessage" listeners registered on the input, in order
    sent,        \* frames passed to output.send, in order
    timers,      \* pending setTimeout timers
    nextHandle,  \* next handle returned by setTimeout
    frameCount,  \* frames delivered so far
    channels,    \* MIDIDeviceState.channels
    omni,        \* MIDIDeviceState.omni
    updateCount, \* update() and reset() calls made on the device state
    lastMessage, \* the message of the latest update() call, <<>> for reset()
    noteLog,     \* per channel state and note: the Note-Ons and Note-Offs
                 \* passed to update() since construction or reset()
    resetDirty,  \* the latest call was reset() on a device state that
                 \* differed from the post-construction one
    notified,    \* per channel state: the messages its update() passed to
                 \* the onMessage observers during the latest call, in order
    call,        \* a call of a static codec function: its name, its
                 \* arguments and, once made, its result
    connector    \* the MIDIConnector: its fields, the listeners it has
                 \* registered, the ports' states and its sends

exchangeVars == <<exchanges, listeners, sent, timers, nextHandle, frameCount>>
stateVars == <<channels, omni, updateCount, lastMessage, noteLog, resetDirty, notified>>
vars == <<exchanges, listeners, sent, timers, nextHandle, frameCount, channels, omni, updateCount, lastMessage, noteLog, resetDirty, notified, call, connector>>
codecVars == <<call>>
connectorVars == <<connector>>

\* fields of a MIDIExchange after its property initialisers, before the
\* constructor body ran
NoExchange ==
    [ constructed |-> FALSE,
      isRunning |-> FALSE, isCompleted |-> FALSE,
      hasPromise |-> FALSE,          \* _resolve/_reject are set
      handle |-> Undef,
      exchangeEvents |-> <<>>,
      responses |-> <<>>,
      eventIndex |-> 0,
      requiredNull |-> TRUE,         \* _requiredResponses = null
      required |-> <<>>,             \* _requiredResponses, in insertion order
      \* observations of the caller
      startCalls |-> 0, startThrown |-> 0,
      resolveCalls |-> 0, rejectCalls |-> 0,
      outcome |-> "none" ]

\* the mutable world an exchange method acts on
World == [ ex |-> exchanges, listeners |-> listeners, sent |-> sent,
           timers |-> timers, nextHandle |-> nextHandle ]

SetWorld(w) ==
    /\ exchanges' = w.ex
    /\ listeners' = w.listeners
    /\ sent' = w.sent
    /\ timers' = w.timers
    /\ nextHandle' = w.nextHandle

\* input.removeEventListener("midimessage", this.onMidiMessage)
RemoveListener(ls, e) == SelectSeq(ls, LAMBDA x : x # e)

\* MIDIExchange.resolve
resolve(w, e) ==
    LET x == w.ex[e]
        w1 == [w EXCEPT !.listeners = RemoveListener(w.listeners, e)]
    IN  IF x.hasPromise
        THEN [w1 EXCEPT !.ex[e].resolveCalls = x.resolveCalls + 1,
                        !.ex[e].outcome =
                            IF x.outcome = "none" THEN "Completed" ELSE x.outcome]
        ELSE w1   \* this._resolve is null: TypeError

\* reject that leaves the "midimessage" listener registered
reject_keepsListener(w, e) ==
    LET x == w.ex[e]
    IN  IF x.hasPromise
        THEN [w EXCEPT !.ex[e].rejectCalls = x.rejectCalls + 1,
                       !.ex[e].outcome =
                           IF x.outcome = "none" THEN "Failed" ELSE x.outcome]
        ELSE w

\* MIDIExchange.reject
reject(w, e) ==
    LET x == w.ex[e]
        w1 == [w EXCEPT !.listeners = RemoveListener(w.listeners, e)]
    IN  IF x.hasPromise
        THEN [w1 EXCEPT !.ex[e].rejectCalls = x.rejectCalls + 1,
                        !.ex[e].outcome =
                            IF x.outcome = "none" THEN "Failed" ELSE x.outcome]
        ELSE w1   \* this._reject is null: TypeError

\* startExchangeEvent that sends the request but arms no timer
startExchangeEvent_noTimer(w, e) ==
    LET x == w.ex[e]
        event == x.exchangeEvents[x.eventIndex + 1]
    IN  [w EXCEPT !.ex[e].requiredNull = ~event.present,
                  !.ex[e].required = IF event.present THEN event.items ELSE <<>>,
                  !.sent = Append(w.sent, [by |-> e, ev |-> x.eventIndex,
                                           data |-> event.request])]
\* MIDIExchange.startExchangeEvent
startExchangeEvent(w, e) ==
    LET x == w.ex[e]
        event == x.exchangeEvents[x.eventIndex + 1]
    IN  [w EXCEPT !.ex[e].requiredNull = ~event.present,
                  !.ex[e].required = IF event.present THEN event.items ELSE <<>>,
                  !.sent = Append(w.sent, [by |-> e, ev |-> x.eventIndex,
                                           data |-> event.request]),
                  !.ex[e].handle = w.nextHandle,
                  !.timers = w.timers \cup
                      {[id |-> w.nextHandle, owner |-> e, ev |-> x.eventIndex]},
                  !.nextHandle = w.nextHandle + 1]

\* clearTimeout(handle)
clearTimeout(ts, h) == { t \in ts : t.id # h }

\* req.id || this.device.manufacturerId
DescId(req) ==
    IF req.id = <<>> \/ req.id = <<0>> THEN DeviceManufacturerId ELSE req.id

\* req.deviceId || this.device.deviceId
DescDeviceId(req) ==
    IF req.deviceId = Undef \/ req.deviceId = 0 THEN DeviceDeviceId ELSE req.deviceId

\* does descriptor req accept the frame
Matches(data, req) == validateSysEx(data, DescId(req), DescDeviceId(req), req.header)

\* the last remaining descriptor accepting the frame instead of the first
FirstMatch_lastMatch(data, required) ==
    IF \E k \in 1 .. Len(required) : Matches(data, required[k])
    THEN CHOOSE k \in 1 .. Len(required) :
            /\ Matches(data, required[k])
            /\ \A m \in (k + 1) .. Len(required) : ~Matches(data, required[m])
    ELSE 0

\* index of the first remaining descriptor accepting the frame, 0 if none
FirstMatch(data, required) ==
    IF \E k \in 1 .. Len(required) : Matches(data, required[k])
    THEN CHOOSE k \in 1 .. Len(required) :
            /\ Matches(data, required[k])
            /\ \A m \in 1 .. (k - 1) : ~Matches(data, required[m])
    ELSE 0

\* sequence s without its k-th element
RemoveAt(s, k) == [ m \in 1 .. (Len(s) - 1) |-> IF m < k THEN s[m] ELSE s[m + 1] ]

\* onMidiMessage that completes an event only on a frame that removed a
\* descriptor
onMidiMessage_needsMatch(w, e, data) ==
    LET x == w.ex[e]
        k == FirstMatch(data, x.required)
        w1 == IF ~x.requiredNull
              THEN IF k # 0
                   THEN [w EXCEPT !.ex[e].responses = Append(x.responses, data),
                                  !.ex[e].required = RemoveAt(x.required, k)]
                   ELSE w
              ELSE [w EXCEPT !.ex[e].responses = Append(x.responses, data)]
        exchangeCompleted == IF ~x.requiredNull
                             THEN k # 0 /\ Len(w1.ex[e].required) = 0
                             ELSE TRUE
        w2 == [w1 EXCEPT !.timers = clearTimeout(w1.timers, x.handle),
                         !.ex[e].handle = Undef,
                         !.ex[e].eventIndex = x.eventIndex + 1]
    IN  IF exchangeCompleted
        THEN IF w2.ex[e].eventIndex >= Len(x.exchangeEvents)
             THEN resolve(w2, e)
             ELSE startExchangeEvent(w2, e)
        ELSE w1

\* onMidiMessage that restarts the event's timer on a frame that does not
\* complete the event
onMidiMessage_restartsTimer(w, e, data) ==
    LET x == w.ex[e]
        k == FirstMatch(data, x.required)
        w1 == IF ~x.requiredNull
              THEN IF k # 0
                   THEN [w EXCEPT !.ex[e].responses = Append(x.responses, data),
                                  !.ex[e].required = RemoveAt(x.required, k)]
                   ELSE w
              ELSE [w EXCEPT !.ex[e].responses = Append(x.responses, data)]
        exchangeCompleted == IF ~x.requiredNull
                             THEN Len(w1.ex[e].required) = 0
                             ELSE TRUE
        w2 == [w1 EXCEPT !.timers = clearTimeout(w1.timers, x.handle),
                         !.ex[e].handle = Undef,
                         !.ex[e].eventIndex = x.eventIndex + 1]
    IN  IF exchangeCompleted
        THEN IF w2.ex[e].eventIndex >= Len(x.exchangeEvents)
             THEN resolve(w2, e)
             ELSE startExchangeEvent(w2, e)
        ELSE [w1 EXCEPT !.timers = clearTimeout(w1.timers, x.handle) \cup
                            {[id |-> w1.nextHandle, owner |-> e, ev |-> x.eventIndex]},
                        !.ex[e].handle = w1.nextHandle,
                        !.nextHandle = w1.nextHandle + 1]
\* MIDIExchange.onMidiMessage
onMidiMessage(w, e, data) ==
    LET x == w.ex[e]
        k == FirstMatch(data, x.required)
        \* lines 213-229
        w1 == IF ~x.requiredNull
              THEN IF k # 0
                   THEN [w EXCEPT !.ex[e].responses = Append(x.responses, data),
                                  !.ex[e].required = RemoveAt(x.required, k)]
                   ELSE w
              ELSE [w EXCEPT !.ex[e].responses = Append(x.responses, data)]
        exchangeCompleted == IF ~x.requiredNull
                             THEN Len(w1.ex[e].required) = 0
                             ELSE TRUE
        \* lines 235-237
        w2 == [w1 EXCEPT !.timers = clearTimeout(w1.timers, x.handle),
                         !.ex[e].handle = Undef,
                         !.ex[e].eventIndex = x.eventIndex + 1]
    IN  IF exchangeCompleted
        THEN IF w2.ex[e].eventIndex >= Len(x.exchangeEvents)
             THEN resolve(w2, e)
             ELSE startExchangeEvent(w2, e)
        ELSE w1

\* dispatch of one "midimessage" event to the listeners registered when the
\* event fires, in registration order
RECURSIVE Dispatch(_, _, _)
Dispatch(w, ls, data) ==
    IF ls = <<>> THEN w
    ELSE Dispatch(onMidiMessage(w, Head(ls), data), Tail(ls), data)

\* start that returns without an error when no exchange event is defined
start_ignoresEmpty(w, e) ==
    LET x == w.ex[e]
        w1 == [w EXCEPT !.ex[e].startCalls = x.startCalls + 1,
                        !.ex[e].eventIndex = 0]
    IN  IF Len(x.exchangeEvents) = 0
        THEN w1
        ELSE startExchangeEvent([w1 EXCEPT !.ex[e].hasPromise = TRUE], e)

\* MIDIExchange.start: the world after the call
start(w, e) ==
    LET x == w.ex[e]
        w0 == [w EXCEPT !.ex[e].startCalls = x.startCalls + 1]
        thrown == [w0 EXCEPT !.ex[e].startThrown = x.startThrown + 1]
        w1 == [w0 EXCEPT !.ex[e].eventIndex = 0]
    IN  IF x.isRunning THEN thrown
        ELSE IF x.isCompleted THEN thrown
        ELSE IF Len(x.exchangeEvents) = 0
             THEN [w1 EXCEPT !.ex[e].startThrown = x.startThrown + 1]
             ELSE startExchangeEvent([w1 EXCEPT !.ex[e].hasPromise = TRUE], e)

\* ------------------------------------------------------------------------
\* MIDIStatus
\* ------------------------------------------------------------------------
NoteOff == 128
NoteOn == 144
KeyPressure == 160
ControlChange == 176
ProgramChange == 192
ChannelPressure == 208
PitchBend == 224
\* MIDIController.Hold (sustain pedal), and the threshold of holdOn
HoldController == 64
HoldThreshold == 64

\* ------------------------------------------------------------------------
\* MIDIMessage instances (field getters over message.data)
\* ------------------------------------------------------------------------
msgType(m) == type(At(m, 0))
msgStatus(m) == status(At(m, 0))
msgChannel(m) == LoNibble(At(m, 0))
msgNote(m) == At(m, 1)
msgVelocity(m) == At(m, 2)
msgController(m) == At(m, 1)
msgValue(m) == At(m, 2)
\* pitch bend read with the two data bytes exchanged
msgPitchBend_swapped(m) == At(m, 1) * 128 + At(m, 2) - 8192
\* pitchBend getter without the centre offset
msgPitchBend_unsigned(m) == At(m, 2) * 128 + At(m, 1)
msgPitchBend(m) == At(m, 2) * 128 + At(m, 1) - 8192

\* MIDIMessage.manufacturerId: <<>> for undefined, <<b>> for a number,
\* <<0, b, c>> for the array of an extended id
msgManufacturerId(m) ==
    IF At(m, 0) # SystemExclusive THEN <<>>
    ELSE IF At(m, 1) = 0 THEN <<At(m, 1), At(m, 2), At(m, 3)>>
    ELSE IF At(m, 1) = Undef THEN <<>>
    ELSE <<At(m, 1)>>

\* deviceId read after a one-byte id whatever byte 1 is
msgDeviceId_ignoresExtended(m) ==
    IF At(m, 0) # SystemExclusive THEN Undef ELSE At(m, 2)

\* MIDIMessage.deviceId: a byte or Undef
msgDeviceId(m) ==
    IF At(m, 0) # SystemExclusive THEN Undef
    ELSE IF At(m, 1) = 0 THEN At(m, 4)
    ELSE At(m, 2)

\* MIDIController numbers of the parameter-number messages
DataEntry_MSB == 6
DataEntry_LSB == 38
NRPN_LSB == 98
NRPN_MSB == 99
RPN_LSB == 100
RPN_MSB == 101

\* x & 0x7f and (x >> 7) & 0x7f for x >= 0
Low7(x) == x % 128
High7(x) == (x \div 128) % 128

\* MIDIMessage.rpn7, rpn14, nrpn7, nrpn14, rpnNull
rpn7(channel, param, value) ==
    LET st == ControlChange + channel
    IN  <<st, RPN_MSB, High7(param), st, RPN_LSB, Low7(param),
          st, DataEntry_MSB, Low7(value)>>

\* rpn14 that sends the value's low 7 bits as Data-Entry MSB
rpn14_valueLsbFirst(channel, param, value) ==
    LET st == ControlChange + channel
    IN  <<st, RPN_MSB, High7(param), st, RPN_LSB, Low7(param),
          st, DataEntry_MSB, Low7(value), st, DataEntry_LSB, High7(value)>>

rpn14(channel, param, value) ==
    LET st == ControlChange + channel
    IN  <<st, RPN_MSB, High7(param), st, RPN_LSB, Low7(param),
          st, DataEntry_MSB, High7(value), st, DataEntry_LSB, Low7(value)>>

nrpn7(channel, param, value) ==
    LET st == ControlChange + channel
    IN  <<st, NRPN_MSB, High7(param), st, NRPN_LSB, Low7(param),
          st, DataEntry_MSB, Low7(value)>>

\* nrpn14 that names the registered-parameter controllers
nrpn14_usesRpn(channel, param, value) ==
    LET st == ControlChange + channel
    IN  <<st, RPN_MSB, High7(param), st, RPN_LSB, Low7(param),
          st, DataEntry_MSB, High7(value), st, DataEntry_LSB, Low7(value)>>

nrpn14(channel, param, value) ==
    LET st == ControlChange + channel
    IN  <<st, NRPN_MSB, High7(param), st, NRPN_LSB, Low7(param),
          st, DataEntry_MSB, High7(value), st, DataEntry_LSB, Low7(value)>>

rpnNull(channel) ==
    LET st == ControlChange + channel
    IN  <<st, RPN_MSB, 127, st, RPN_LSB, 127>>

\* ------------------------------------------------------------------------
\* MIDIChannelState
\* ------------------------------------------------------------------------
\* note and controller numbers the modelled messages address; every other
\* entry of the 128-entry tables keeps its initial value
Notes == {60, 61}
Controllers == {HoldController, 7}
Velocities == {64, 100}
HoldValues == {0, 63, 64, 127}
\* the channels that receive messages in the model, two of the 16
ChannelIds == {0, 1}
OmniChannel == -1

\* new MIDIChannelState(channel)
NewChannelState(ch) ==
    [ channel |-> ch,
      channelPressure |-> 0,
      pitchBend |-> 0,
      activeNotes |-> [ n \in Notes |-> <<>> ],
      heldNotes |-> <<>>,
      controller |-> [ c \in Controllers |-> 0 ],
      keyPressure |-> [ n \in Notes |-> 0 ] ]

\* MIDIChannelState.holdOn
holdOn(cs) == cs.controller[HoldController] >= HoldThreshold

\* Array.prototype.shift: removes the first element, if any
Shift(q) == IF q = <<>> THEN q ELSE Tail(q)

\* the loop of lines 76-82: one shift per held Note-Off, in queue order
RECURSIVE ReleaseHeld(_, _)
ReleaseHeld(active, held) ==
    IF held = <<>> THEN active
    ELSE ReleaseHeld([active EXCEPT ![msgNote(Head(held))] = Shift(@)], Tail(held))

\* Note-Off that removes the newest occurrence instead of the oldest
updateNoteOff_popsNewest(cs, message) ==
    IF holdOn(cs)
    THEN [cs EXCEPT !.heldNotes = Append(@, message)]
    ELSE [cs EXCEPT !.activeNotes[At(message, 1)] =
                        IF @ = <<>> THEN @ ELSE SubSeq(@, 1, Len(@) - 1)]

\* Note-Off that releases at once, whatever the sustain pedal
updateNoteOff_ignoresHold(cs, message) ==
    [cs EXCEPT !.activeNotes[At(message, 1)] = Shift(@)]

\* MIDIChannelState.update, case MIDIStatus.NoteOff
updateNoteOff(cs, message) ==
    IF holdOn(cs)
    THEN [cs EXCEPT !.heldNotes = Append(@, message)]
    ELSE [cs EXCEPT !.activeNotes[At(message, 1)] = Shift(@)]

\* Control-Change that releases the held notes but keeps the held queue
updateControlChange_keepsHeld(cs, message) ==
    LET b1 == At(message, 1)
        b2 == At(message, 2)
        cs1 == [cs EXCEPT !.controller[msgController(message)] = msgValue(message)]
    IN  IF b1 = HoldController /\ b2 < HoldThreshold
        THEN [cs1 EXCEPT !.activeNotes = ReleaseHeld(cs1.activeNotes, cs1.heldNotes)]
        ELSE cs1

\* MIDIChannelState.update, case MIDIStatus.ControlChange
updateControlChange(cs, message) ==
    LET b1 == At(message, 1)
        b2 == At(message, 2)
        cs1 == [cs EXCEPT !.controller[msgController(message)] = msgValue(message)]
    IN  IF b1 = HoldController /\ b2 < HoldThreshold
        THEN [cs1 EXCEPT !.activeNotes = ReleaseHeld(cs1.activeNotes, cs1.heldNotes),
                         !.heldNotes = <<>>]
        ELSE cs1

\* update() whose Program-Change handler stores the program number as the
\* channel pressure
update_programSetsPressure(cs, message) ==
    LET b1 == At(message, 1)
        b2 == At(message, 2)
        st == msgStatus(message)
    IN  IF st = NoteOn
        THEN [cs EXCEPT !.activeNotes[b1] = Append(@, message)]
        ELSE IF st = NoteOff
        THEN updateNoteOff(cs, message)
        ELSE IF st = KeyPressure
        THEN [cs EXCEPT !.keyPressure[b1] = b2]
        ELSE IF st = ControlChange
        THEN updateControlChange(cs, message)
        ELSE IF st = PitchBend
        THEN [cs EXCEPT !.pitchBend = msgPitchBend(message)]
        ELSE IF st = ChannelPressure \/ st = ProgramChange
        THEN [cs EXCEPT !.channelPressure = b1]
        ELSE cs
\* MIDIChannelState.update
update(cs, message) ==
    LET b1 == At(message, 1)
        b2 == At(message, 2)
        st == msgStatus(message)
    IN  IF st = NoteOn
        THEN [cs EXCEPT !.activeNotes[b1] = Append(@, message)]
        ELSE IF st = NoteOff
        THEN updateNoteOff(cs, message)
        ELSE IF st = KeyPressure
        THEN [cs EXCEPT !.keyPressure[b1] = b2]
        ELSE IF st = ControlChange
        THEN updateControlChange(cs, message)
        ELSE IF st = PitchBend
        THEN [cs EXCEPT !.pitchBend = msgPitchBend(message)]
        ELSE IF st = ChannelPressure
        THEN [cs EXCEPT !.channelPressure = b1]
        ELSE cs

\* MIDIChannelState.reset
\* reset that removes one deferred Note-Off instead of all of them
reset_dropsOneHeld(cs) ==
    [cs EXCEPT !.channelPressure = 0,
               !.pitchBend = 0,
               !.heldNotes = Shift(@),
               !.activeNotes = [ n \in Notes |-> <<>> ],
               !.controller = [ c \in Controllers |-> 0 ],
               !.keyPressure = [ n \in Notes |-> 0 ]]

\* reset that leaves the controller table as it is
reset_keepsControllers(cs) ==
    [cs EXCEPT !.channelPressure = 0,
               !.pitchBend = 0,
               !.heldNotes = <<>>,
               !.activeNotes = [ n \in Notes |-> <<>> ],
               !.keyPressure = [ n \in Notes |-> 0 ]]

reset(cs) ==
    [cs EXCEPT !.channelPressure = 0,
               !.pitchBend = 0,
               !.heldNotes = <<>>,
               !.activeNotes = [ n \in Notes |-> <<>> ],
               !.controller = [ c \in Controllers |-> 0 ],
               !.keyPressure = [ n \in Notes |-> 0 ]]

\* ------------------------------------------------------------------------
\* Messages passed to MIDIDeviceState.update in the model
\* ------------------------------------------------------------------------
NoteOnMsg(ch, n, v) == <<NoteOn + ch, n, v>>
\* MIDIMessage.makeNoteOn(channel, note, velocity), with
\* MIDIMessage.convertZeroVelToNoteOff = convert: the frame of the message
makeNoteOn(channel, note, velocity, convert) ==
    NewMIDIMessage(NoteOnMsg(channel, note, velocity), convert)
NoteOffMsg(ch, n) == <<NoteOff + ch, n, 0>>
ControlChangeMsg(ch, c, v) == <<ControlChange + ch, c, v>>

NoteMessages ==
    { NoteOnMsg(ch, n, v) : ch \in ChannelIds, n \in Notes, v \in Velocities }
        \cup { NoteOffMsg(ch, n) : ch \in ChannelIds, n \in Notes }
HoldMessages ==
    { ControlChangeMsg(ch, HoldController, v) : ch \in ChannelIds, v \in HoldValues }
OtherMessages ==
    UNION { { ControlChangeMsg(ch, 7, 100),
              <<KeyPressure + ch, 60, 50>>,
              <<ProgramChange + ch, 5>>,
              <<ChannelPressure + ch, 40>>,
              <<PitchBend + ch, 1, 65>> } : ch \in ChannelIds }
        \cup { <<248>>, <<240, 67, 16, 247>> }
Messages == NoteMessages \cup HoldMessages \cup OtherMessages

\* ------------------------------------------------------------------------
\* MIDIDeviceState

\* update() that announces the Control-Change before the held Note-Offs
notifications_controlChangeFirst(cs, message) ==
    LET st == msgStatus(message)
    IN  IF st = NoteOff /\ holdOn(cs)
        THEN <<>>
        ELSE IF st = ControlChange /\ At(message, 1) = HoldController
                                   /\ At(message, 2) < HoldThreshold
        THEN <<message>> \o cs.heldNotes
        ELSE <<message>>

\* MIDIChannelState.update: the messages passed to this.onMessage, and to
\* this.device.onMessage when the channel state has a device, in call order:
\* none for a Note-Off queued under hold (return on line 61), the held
\* Note-Offs of the loop of lines 76-82 and then the message (lines 96-97)
notifications(cs, message) ==
    LET st == msgStatus(message)
    IN  IF st = NoteOff /\ holdOn(cs)
        THEN <<>>
        ELSE IF st = ControlChange /\ At(message, 1) = HoldController
                                   /\ At(message, 2) < HoldThreshold
        THEN cs.heldNotes \o <<message>>
        ELSE <<message>>
\* ------------------------------------------------------------------------
\* the 16 channel states and the omni state, by slot
Slots == ChannelIds \cup {OmniChannel}
StateOf(chs, om, k) == IF k = OmniChannel THEN om ELSE chs[k]
\* the message is passed to the update() of slot k
Addressed(m, k) ==
    msgType(m) = "Channel" /\ (k = OmniChannel \/ msgChannel(m) = k)

\* every channel state constructed with a device, the omni state included
hasDevice_omniToo(k) == TRUE

\* MIDIChannelState.device is set: the 16 channel states are constructed with
\* the device state, the omni state without
hasDevice(k) == k # OmniChannel

\* the messages passed to MIDIDeviceState.onMessage during the latest
\* update() call, in call order: those of the addressed channel state, then
\* those of the omni state, each only when the state has a device
deviceOnMessage ==
    IF lastMessage = <<>> \/ msgType(lastMessage) # "Channel"
    THEN <<>>
    ELSE (IF hasDevice(msgChannel(lastMessage))
          THEN notified[msgChannel(lastMessage)] ELSE <<>>)
         \o (IF hasDevice(OmniChannel) THEN notified[OmniChannel] ELSE <<>>)

\* record of the note messages a channel state has been given:
\* ons: its Note-Ons of the note in arrival order, offs: the number of its
\* Note-Offs of the note, stray: a Note-Off arrived while the note's queue was
\* empty, hold: controller 64 has been at 64 or above (nothing else is
\* recorded from then on)
NoNoteLog ==
    [ ons |-> [ n \in Notes |-> <<>> ],
      offs |-> [ n \in Notes |-> 0 ],
      stray |-> [ n \in Notes |-> FALSE ],
      hold |-> FALSE ]

Logged(log, cs, m) ==
    IF log.hold
    THEN log
    ELSE IF msgStatus(m) = NoteOn
    THEN [log EXCEPT !.ons[msgNote(m)] = Append(@, m)]
    ELSE IF msgStatus(m) = NoteOff
    THEN [log EXCEPT !.offs[msgNote(m)] = @ + 1,
                     !.stray[msgNote(m)] = @ \/ cs.activeNotes[msgNote(m)] = <<>>]
    ELSE IF msgStatus(m) = ControlChange /\ msgController(m) = HoldController
                                        /\ msgValue(m) >= HoldThreshold
    THEN [NoNoteLog EXCEPT !.hold = TRUE]
    ELSE log

InitState ==
    /\ channels = [ ch \in ChannelIds |-> NewChannelState(ch) ]
    /\ omni = NewChannelState(OmniChannel)
    /\ updateCount = 0
    /\ lastMessage = <<>>
    /\ noteLog = [ k \in Slots |-> NoNoteLog ]
    /\ resetDirty = FALSE
    /\ notified = [ k \in Slots |-> <<>> ]

\* update that passes a channel message to every channel state
DeviceUpdate_broadcast(message) ==
    /\ updateCount < MaxUpdates
    /\ updateCount' = updateCount + 1
    /\ lastMessage' = message
    /\ IF msgType(message) = "Channel"
       THEN /\ channels' = [ ch \in ChannelIds |-> update(channels[ch], message) ]
            /\ omni' = update(omni, message)
       ELSE UNCHANGED <<channels, omni>>
    /\ resetDirty' = FALSE
    /\ notified' = [ k \in Slots |->
                       IF Addressed(message, k)
                       THEN notifications(StateOf(channels, omni, k), message)
                       ELSE <<>> ]
    /\ UNCHANGED <<exchangeVars, codecVars, connectorVars, noteLog>>
\* MIDIDeviceState.update
DeviceUpdate(message) ==
    /\ updateCount < MaxUpdates
    /\ updateCount' = updateCount + 1
    /\ lastMessage' = message
    /\ IF msgType(message) = "Channel"
       THEN /\ channels' = [channels EXCEPT ![msgChannel(message)] = update(@, message)]
            /\ omni' = update(omni, message)
       ELSE UNCHANGED <<channels, omni>>
    /\ resetDirty' = FALSE
    /\ notified' = [ k \in Slots |->
                       IF Addressed(message, k)
                       THEN notifications(StateOf(channels, omni, k), message)
                       ELSE <<>> ]
    /\ UNCHANGED <<exchangeVars, codecVars, connectorVars, noteLog>>

\* MIDIDeviceState.reset
DeviceReset ==
    /\ updateCount < MaxUpdates
    /\ updateCount' = updateCount + 1
    /\ lastMessage' = <<>>
    /\ channels' = [ ch \in ChannelIds |-> reset(channels[ch]) ]
    /\ omni' = reset(omni)
    /\ resetDirty' = (\E k \in Slots : StateOf(channels, omni, k) # NewChannelState(k))
    /\ notified' = [ k \in Slots |-> <<>> ]
    /\ UNCHANGED <<exchangeVars, codecVars, connectorVars, noteLog>>

NextState ==
    \/ \E message \in Messages : DeviceUpdate(message)
    \/ DeviceReset

\* ------------------------------------------------------------------------
\* Actions of the exchange specification
\* ------------------------------------------------------------------------
InitExchange ==
    /\ exchanges = [ e \in ExchangeIds |-> NoExchange ]
    /\ listeners = <<>>
    /\ sent = <<>>
    /\ timers = {}
    /\ nextHandle = 1
    /\ frameCount = 0

\* MIDIConnector: its ports and its state after construction
\* calls and events applied to the connector in one run
MaxConnectorOps == 5

\* null port
NoPort == 0
InputPorts == {1, 2}
OutputPorts == {3}
PortStates == {"connected", "disconnected"}
\* frames the inputs deliver: a Note-On with velocity 0, active sensing
ConnectorFrames == { <<144, 60, 0>>, <<254>> }
\* values of the onProcessMessage field: null, or a filter that returns null
\* for active sensing and the message itself otherwise
Processors == {"none", "dropSensing"}

\* new MIDIConnector(); the ports start connected
NewConnector ==
    [ input |-> NoPort,
      output |-> NoPort,
      onProcessMessage |-> "none",
      messageListeners |-> {},      \* ports with onMessage on "midimessage"
      inputStateListeners |-> {},   \* ports with onInputStateChange
      outputStateListeners |-> {},  \* ports with onOutputStateChange
      awaitingInput |-> 0,          \* connect() calls suspended in input.open()
      awaitingOutput |-> 0,         \* connect() calls suspended in output.open()
      portState |-> [ p \in InputPorts \cup OutputPorts |-> "connected" ],
      forwarded |-> 0,              \* output.send calls made
      lastSent |-> [ port |-> NoPort, data |-> <<>> ],
      \* the latest call or event
      opCount |-> 0,
      lastOp |-> "new",
      lastFrom |-> NoPort,
      lastData |-> <<>> ]

\* no codec call
NoCall == [ fn |-> "none", args |-> <<>>, done |-> FALSE, out |-> <<>> ]

Init ==
    /\ InitExchange
    /\ InitState
    /\ call = NoCall
    /\ connector = NewConnector

\* new MIDIExchange(device, exchange): exchanges are created in id order
Construct(e, events) ==
    /\ ~exchanges[e].constructed
    /\ \A d \in ExchangeIds : d < e => exchanges[d].constructed
    /\ exchanges' = [exchanges EXCEPT ![e].constructed = TRUE,
                                      ![e].exchangeEvents = events]
    /\ listeners' = Append(listeners, e)
    /\ UNCHANGED <<sent, timers, nextHandle, frameCount, stateVars, codecVars, connectorVars>>

\* start() calls made so far
TotalStarts == exchanges[1].startCalls + exchanges[2].startCalls

\* the caller calls exchange.start()
Start(e) ==
    /\ exchanges[e].constructed
    /\ TotalStarts < MaxStarts
    /\ SetWorld(start(World, e))
    /\ UNCHANGED <<frameCount, stateVars, codecVars, connectorVars>>

\* the input delivers a frame
Receive(data) ==
    /\ frameCount < MaxFrames
    /\ frameCount' = frameCount + 1
    /\ SetWorld(Dispatch(World, listeners, data))
    /\ UNCHANGED <<stateVars, codecVars, connectorVars>>

\* a pending timer expires
Timeout(t) ==
    /\ t \in timers
    /\ SetWorld(reject([World EXCEPT !.timers = timers \ {t}], t.owner))
    /\ UNCHANGED <<frameCount, stateVars, codecVars, connectorVars>>

Next ==
    \/ \E e \in ExchangeIds, events \in EventConfigs : Construct(e, events)
    \/ \E e \in ExchangeIds : Start(e)
    \/ \E data \in Frames : Receive(data)
    \/ \E t \in timers : Timeout(t)

Spec == Init /\ [][Next]_vars

\* a timer armed with setTimeout fires unless it is cleared first
TimerFires == \E t \in timers : Timeout(t)

\* an exchange of two events that both leave `response` out
PlainEvents == << Event(ReqIdentity, FALSE, <<>>), Event(ReqDump, FALSE, <<>>) >>

\* one exchange on the device: constructed, started by its caller, fed frames
NextSingle ==
    \/ \E events \in EventConfigs \cup {PlainEvents} : Construct(1, events)
    \/ Start(1)
    \/ \E data \in Frames : Receive(data)
    \/ TimerFires

SpecSingle == Init /\ [][NextSingle]_vars

\* a single exchange whose timers eventually fire
SpecLive == SpecSingle /\ WF_vars(TimerFires)

\* the device state engine on its own
SpecState == Init /\ [][NextState]_vars

\* MIDIDeviceState.update with a note or controller-64 message, recorded in
\* the note log of every channel state it is passed to
NoteUpdate(message) ==
    /\ updateCount < MaxUpdates
    /\ updateCount' = updateCount + 1
    /\ lastMessage' = message
    /\ channels' = [channels EXCEPT ![msgChannel(message)] = update(@, message)]
    /\ omni' = update(omni, message)
    /\ noteLog' = [ k \in Slots |->
                      IF Addressed(message, k)
                      THEN Logged(noteLog[k], StateOf(channels, omni, k), message)
                      ELSE noteLog[k] ]
    /\ resetDirty' = FALSE
    /\ notified' = [ k \in Slots |->
                       IF Addressed(message, k)
                       THEN notifications(StateOf(channels, omni, k), message)
                       ELSE <<>> ]
    /\ UNCHANGED <<exchangeVars, codecVars, connectorVars>>

\* MIDIDeviceState.reset, which also starts the note logs afresh
NoteReset ==
    /\ updateCount < MaxUpdates
    /\ updateCount' = updateCount + 1
    /\ lastMessage' = <<>>
    /\ channels' = [ ch \in ChannelIds |-> reset(channels[ch]) ]
    /\ omni' = reset(omni)
    /\ noteLog' = [ k \in Slots |-> NoNoteLog ]
    /\ resetDirty' = (\E k \in Slots : StateOf(channels, omni, k) # NewChannelState(k))
    /\ notified' = [ k \in Slots |-> <<>> ]
    /\ UNCHANGED <<exchangeVars, codecVars, connectorVars>>

NextNotes ==
    \/ \E message \in NoteMessages \cup HoldMessages : NoteUpdate(message)
    \/ NoteReset

\* the device state engine fed with note and sustain-pedal messages, with
\* the note messages recorded
SpecNotes == Init /\ [][NextNotes]_vars

\* ------------------------------------------------------------------------
\* Calls of the static codec functions
\* ------------------------------------------------------------------------
\* a pitch-bend frame for a channel and a bend value in -8192 .. 8191:
\* status 0xE0 | channel, then the low and the high 7 bits of value + 8192
encodePitchBend(channel, value) ==
    <<PitchBend + channel, (value + 8192) % 128, (value + 8192) \div 128>>

\* longest run of bytes after the device-id byte in the frames validated
MaxTailLen == 2
\* bytes after the device-id byte
TailBytes == {6, 2}
RECURSIVE SeqsUpTo(_, _)
SeqsUpTo(S, n) ==
    IF n = 0 THEN { <<>> }
    ELSE LET shorter == SeqsUpTo(S, n - 1)
         IN shorter \cup { Append(q, b) : q \in { r \in shorter : Len(r) = n - 1 }, b \in S }

\* manufacturer ids asked for, and the id bytes of the frames
SysExIds == { <<67>>, <<0, 32, 16>> }
FrameIdBytes == { <<67>>, <<68>>, <<0, 32, 16>>, <<0, 32, 17>>, <<0, 33, 16>>, <<1, 32, 16>> }
FrameDeviceBytes == {16, 32, 127}
SysExFrames ==
    { <<b0>> \o idBytes \o <<d>> \o tail :
        b0 \in {SystemExclusive, 247}, idBytes \in FrameIdBytes,
        d \in FrameDeviceBytes, tail \in SeqsUpTo(TailBytes, MaxTailLen) }
    \cup { <<>>, <<SystemExclusive>>, <<SystemExclusive, 67>> }
SysExDeviceIds == {Undef, 16, 32, AnyDevice}
SysExHeaders == { <<>>, <<6>>, <<AnyByte>>, <<6, 2>>, <<AnyByte, 2>>, <<6, AnyByte>> }

UniversalDeviceIds == {0, 16, 127}
UniversalSubIds == {1, 6}
UniversalPayloads == { <<>>, <<5>>, <<5, 9>> }

ChannelNumbers == 0 .. 15
DataBytes == 0 .. 127
\* Note-Ons are built for every note with these velocities and for every
\* velocity with these notes
NoteSamples == {0, 1, 60, 127}
VelocitySamples == {0, 1, 64, 127}
BendValues == (0 - 8192) .. 8191

\* frames a MIDIMessage is constructed from: channel frames of 3 bytes with
\* and without a zero last byte, Note-On frames of 2 and 4 bytes, others
StatusSamples == {NoteOff, NoteOn, ControlChange, PitchBend}
ConstructorFrames ==
    { <<st + ch, n, v>> : st \in StatusSamples, ch \in ChannelNumbers,
                          n \in {0, 60}, v \in {0, 1, 127} }
    \cup { <<NoteOn + ch, 0>> : ch \in ChannelNumbers }
    \cup { <<NoteOn + ch, 60, 0, v>> : ch \in ChannelNumbers, v \in {0, 64} }
    \cup { <<>>, <<248>>, <<SystemExclusive, 67, 0, 247>> }

\* 14-bit parameter numbers and values passed to the parameter-number builders
ParamSamples == {0, 1, 127, 128, 16383}
\* the 14-bit parameter numbers and values
Params14 == 0 .. 16383

Pending(fn, args) == [ fn |-> fn, args |-> args, done |-> FALSE, out |-> <<>> ]

\* the calls whose arguments are drawn
DrawnCall ==
    \/ \E data \in SysExFrames, id \in SysExIds,
          deviceId \in SysExDeviceIds, header \in SysExHeaders :
          call = Pending("validateSysEx",
                         [data |-> data, id |-> id, deviceId |-> deviceId, header |-> header])
    \/ \E deviceId \in UniversalDeviceIds, sid1 \in UniversalSubIds,
          sid2 \in UniversalSubIds \cup {Undef}, data \in UniversalPayloads :
          call = Pending("universalNRTSysEx",
                         [deviceId |-> deviceId, sid1 |-> sid1, sid2 |-> sid2, data |-> data])
    \/ \E deviceId \in UniversalDeviceIds, sid1 \in UniversalSubIds,
          sid2 \in UniversalSubIds, data \in UniversalPayloads :
          call = Pending("universalRTSysEx",
                         [deviceId |-> deviceId, sid1 |-> sid1, sid2 |-> sid2, data |-> data])
    \/ \E fn \in {"type", "status"}, b \in 0 .. 255 :
          call = Pending(fn, [firstByte |-> b])
    \/ \E ch \in ChannelNumbers, n \in DataBytes, v \in DataBytes, c \in BOOLEAN :
          (n \in NoteSamples \/ v \in VelocitySamples)
          /\ call = Pending("makeNoteOn", [channel |-> ch, note |-> n, velocity |-> v, convert |-> c])
    \/ \E ch \in ChannelNumbers, v \in BendValues :
          call = Pending("pitchBend", [channel |-> ch, value |-> v])
    \/ \E data \in ConstructorFrames, c \in BOOLEAN :
          call = Pending("MIDIMessage", [data |-> data, convert |-> c])
    \/ \E ch \in {0, 15}, b1 \in DataBytes, b2 \in DataBytes :
          call = Pending("pitchBendOf", [data |-> <<PitchBend + ch, b1, b2>>])
    \/ \E fn \in {"rpn7", "rpn14", "nrpn7", "nrpn14"},
          ch \in ChannelNumbers, param \in ParamSamples, value \in ParamSamples :
          call = Pending(fn, [channel |-> ch, param |-> param, value |-> value])
    \/ \E fn \in {"rpn14", "nrpn14"}, x \in Params14, y \in {0, 16383} :
          \/ call = Pending(fn, [channel |-> 0, param |-> x, value |-> y])
          \/ call = Pending(fn, [channel |-> 0, param |-> y, value |-> x])
    \/ \E fn \in {"rpn7", "nrpn7"}, ch \in {0, 15},
          param \in ParamSamples, value \in DataBytes :
          call = Pending(fn, [channel |-> ch, param |-> param, value |-> value])
    \/ \E ch \in ChannelNumbers :
          call = Pending("rpnNull", [channel |-> ch])
    \/ \E fn \in {"manufacturerId", "deviceId"}, data \in SysExFrames :
          call = Pending(fn, [data |-> data])

InitCodec ==
    /\ InitExchange
    /\ InitState
    /\ DrawnCall
    /\ connector = NewConnector

\* the pending call of fn returns out
Return(fn, out) ==
    /\ call.fn = fn
    /\ ~call.done
    /\ call' = [call EXCEPT !.done = TRUE, !.out = out]
    /\ UNCHANGED <<exchangeVars, stateVars, connectorVars>>

CallValidateSysEx ==
    /\ call.fn = "validateSysEx"
    /\ Return("validateSysEx",
              validateSysEx(call.args.data, call.args.id, call.args.deviceId, call.args.header))

CallUniversalNRTSysEx ==
    /\ call.fn = "universalNRTSysEx"
    /\ Return("universalNRTSysEx",
              universalNRTSysEx(call.args.deviceId, call.args.sid1, call.args.sid2, call.args.data))

CallUniversalRTSysEx ==
    /\ call.fn = "universalRTSysEx"
    /\ Return("universalRTSysEx",
              universalRTSysEx(call.args.deviceId, call.args.sid1, call.args.sid2, call.args.data))

CallType ==
    /\ call.fn = "type"
    /\ Return("type", type(call.args.firstByte))

CallStatus ==
    /\ call.fn = "status"
    /\ Return("status", status(call.args.firstByte))

CallMakeNoteOn ==
    /\ call.fn = "makeNoteOn"
    /\ Return("makeNoteOn",
              makeNoteOn(call.args.channel, call.args.note, call.args.velocity, call.args.convert))

\* a pitch-bend frame is built and wrapped in a MIDIMessage
CallPitchBend ==
    /\ call.fn = "pitchBend"
    /\ Return("pitchBend",
              NewMIDIMessage(encodePitchBend(call.args.channel, call.args.value),
                             convertZeroVelToNoteOff))

\* the pitchBend getter of a message holding the frame
CallPitchBendOf ==
    /\ call.fn = "pitchBendOf"
    /\ Return("pitchBendOf", msgPitchBend(call.args.data))

\* new MIDIMessage(data)
CallMIDIMessage ==
    /\ call.fn = "MIDIMessage"
    /\ Return("MIDIMessage", NewMIDIMessage(call.args.data, call.args.convert))

CallRpn7 ==
    /\ call.fn = "rpn7"
    /\ Return("rpn7", rpn7(call.args.channel, call.args.param, call.args.value))

CallRpn14 ==
    /\ call.fn = "rpn14"
    /\ Return("rpn14", rpn14(call.args.channel, call.args.param, call.args.value))

CallNrpn7 ==
    /\ call.fn = "nrpn7"
    /\ Return("nrpn7", nrpn7(call.args.channel, call.args.param, call.args.value))

CallNrpn14 ==
    /\ call.fn = "nrpn14"
    /\ Return("nrpn14", nrpn14(call.args.channel, call.args.param, call.args.value))

CallRpnNull ==
    /\ call.fn = "rpnNull"
    /\ Return("rpnNull", rpnNull(call.args.channel))

\* the manufacturerId and deviceId getters of a message holding the frame
CallManufacturerId ==
    /\ call.fn = "manufacturerId"
    /\ Return("manufacturerId", msgManufacturerId(call.args.data))

CallDeviceId ==
    /\ call.fn = "deviceId"
    /\ Return("deviceId", msgDeviceId(call.args.data))

NextCodec ==
    \/ CallValidateSysEx
    \/ CallUniversalNRTSysEx
    \/ CallUniversalRTSysEx
    \/ CallType
    \/ CallStatus
    \/ CallMakeNoteOn
    \/ CallPitchBend
    \/ CallPitchBendOf
    \/ CallMIDIMessage
    \/ CallRpn7
    \/ CallRpn14
    \/ CallNrpn7
    \/ CallNrpn14
    \/ CallRpnNull
    \/ CallManufacturerId
    \/ CallDeviceId

\* the codec's static functions, each applied once to drawn arguments
SpecCodec == InitCodec /\ [][NextCodec]_vars

\* ------------------------------------------------------------------------
\* MIDIConnector
\* ------------------------------------------------------------------------
\* disconnect that leaves the "midimessage" listener on the input
disconnect_keepsMessageListener(c) ==
    LET c1 == IF c.input # NoPort
              THEN [c EXCEPT !.inputStateListeners = @ \ {c.input},
                             !.input = NoPort]
              ELSE c
    IN  IF c1.output # NoPort
        THEN [c1 EXCEPT !.outputStateListeners = @ \ {c1.output},
                        !.output = NoPort]
        ELSE c1

\* MIDIConnector.disconnect
disconnect(c) ==
    LET c1 == IF c.input # NoPort
              THEN [c EXCEPT !.messageListeners = @ \ {c.input},
                             !.inputStateListeners = @ \ {c.input},
                             !.input = NoPort]
              ELSE c
    IN  IF c1.output # NoPort
        THEN [c1 EXCEPT !.outputStateListeners = @ \ {c1.output},
                        !.output = NoPort]
        ELSE c1

\* MIDIConnector.connect up to its first await
connect(c, input, output) ==
    LET c1 == [disconnect(c) EXCEPT !.input = input, !.output = output]
    IN  IF input # NoPort
        THEN [c1 EXCEPT !.awaitingInput = @ + 1]
        ELSE IF output # NoPort
        THEN [c1 EXCEPT !.awaitingOutput = @ + 1]
        ELSE c1

\* MIDIConnector.connect resumed after `await this._input.open()`
afterInputOpen(c) ==
    LET c0 == [c EXCEPT !.awaitingInput = @ - 1]
    IN  IF c0.input = NoPort
        THEN c0   \* this._input is null: TypeError
        ELSE LET c1 == [c0 EXCEPT !.messageListeners = @ \cup {c0.input},
                                  !.inputStateListeners = @ \cup {c0.input}]
             IN  IF c1.output # NoPort
                 THEN [c1 EXCEPT !.awaitingOutput = @ + 1]
                 ELSE c1

\* MIDIConnector.connect resumed after `await this._output.open()`
afterOutputOpen(c) ==
    LET c0 == [c EXCEPT !.awaitingOutput = @ - 1]
    IN  IF c0.output = NoPort
        THEN c0   \* this._output is null: TypeError
        ELSE [c0 EXCEPT !.outputStateListeners = @ \cup {c0.output}]

\* this.onProcessMessage(message): <<>> for null
onProcessMessage(p, message) ==
    IF p = "dropSensing" /\ message = <<254>> THEN <<>> ELSE message

\* MIDIConnector.onMessage
connectorOnMessage(c, data) ==
    IF c.output # NoPort /\ c.portState[c.output] = "connected"
    THEN IF c.onProcessMessage # "none"
         THEN LET message == onProcessMessage(c.onProcessMessage,
                                 NewMIDIMessage(data, convertZeroVelToNoteOff))
              IN  IF message = <<>>
                  THEN c
                  ELSE [c EXCEPT !.forwarded = @ + 1,
                                 !.lastSent = [port |-> c.output, data |-> message]]
         ELSE [c EXCEPT !.forwarded = @ + 1,
                        !.lastSent = [port |-> c.output, data |-> data]]
    ELSE c

\* MIDIConnector.onInputStateChange, the event's port being in state `state`
onInputStateChange(c, state) ==
    IF state = "disconnected"
    THEN disconnect(c)
    ELSE IF c.output = NoPort
    THEN c   \* this._output is null: TypeError
    ELSE IF c.portState[c.output] = "connected"
    THEN connect(c, c.input, c.output)
    ELSE c

\* MIDIConnector.onOutputStateChange, the event's port being in state `state`
onOutputStateChange(c, state) ==
    IF state = "disconnected"
    THEN disconnect(c)
    ELSE IF c.input = NoPort
    THEN c   \* this._input is null: TypeError
    ELSE IF c.portState[c.input] = "connected"
    THEN connect(c, c.input, c.output)
    ELSE c

\* the call or event `op` took the connector to c
Applied(c, op, from, data) ==
    /\ connector.opCount < MaxConnectorOps
    /\ connector' = [c EXCEPT !.opCount = connector.opCount + 1,
                              !.lastOp = op,
                              !.lastFrom = from,
                              !.lastData = data]
    /\ UNCHANGED <<exchangeVars, stateVars, codecVars>>

\* the caller calls connect(input, output)
ConnectorConnect(input, output) ==
    Applied(connect(connector, input, output), "connect", NoPort, <<>>)

\* the caller calls disconnect()
ConnectorDisconnect ==
    Applied(disconnect(connector), "disconnect", NoPort, <<>>)

\* the caller assigns onProcessMessage
SetProcessMessage(p) ==
    /\ p # connector.onProcessMessage
    /\ Applied([connector EXCEPT !.onProcessMessage = p], "assign", NoPort, <<>>)

\* input.open() of a suspended connect() call resolves
InputOpened ==
    /\ connector.awaitingInput > 0
    /\ Applied(afterInputOpen(connector), "resume", NoPort, <<>>)

\* output.open() of a suspended connect() call resolves
OutputOpened ==
    /\ connector.awaitingOutput > 0
    /\ Applied(afterOutputOpen(connector), "resume", NoPort, <<>>)

\* a connected input port dispatches a "midimessage" event
PortMessage(port, data) ==
    /\ connector.portState[port] = "connected"
    /\ Applied(IF port \in connector.messageListeners
               THEN connectorOnMessage(connector, data)
               ELSE connector,
               "message", port, data)

\* a port dispatches a "statechange" event, its state being `state` from
\* then on (unchanged when only the connection of the port changed)
PortStateChange(port, state) ==
    LET c == [connector EXCEPT !.portState[port] = state]
    IN  Applied(IF port \in c.inputStateListeners
                THEN onInputStateChange(c, state)
                ELSE IF port \in c.outputStateListeners
                THEN onOutputStateChange(c, state)
                ELSE c,
                "statechange", port, <<>>)

NextConnector ==
    \/ \E input \in InputPorts \cup {NoPort}, output \in OutputPorts \cup {NoPort} :
          ConnectorConnect(input, output)
    \/ ConnectorDisconnect
    \/ \E p \in Processors : SetProcessMessage(p)
    \/ InputOpened
    \/ OutputOpened
    \/ \E port \in InputPorts, data \in ConnectorFrames : PortMessage(port, data)
    \/ \E port \in InputPorts \cup OutputPorts, state \in PortStates :
          PortStateChange(port, state)

\* the connector with its caller and its ports
SpecConnector == Init /\ [][NextConnector]_vars

\* ------------------------------------------------------------------------
\* States of an exchange as its caller observes them
\* ------------------------------------------------------------------------
Constructed(e) == exchanges[e].constructed
\* start() calls that returned a promise
StartedOk(e) == exchanges[e].startCalls - exchanges[e].startThrown
Idle(e) == Constructed(e) /\ StartedOk(e) = 0 /\ exchanges[e].outcome = "none"
Running(e) == Constructed(e) /\ StartedOk(e) > 0 /\ exchanges[e].outcome = "none"
Completed(e) == exchanges[e].outcome = "Completed"
Failed(e) == exchanges[e].outcome = "Failed"
Listening(e) == \E k \in 1 .. Len(listeners) : listeners[k] = e

\* the step is a call of start() on exchange e
StartStep(e) == exchanges'[e].startCalls = exchanges[e].startCalls + 1
\* requests an exchange passed to output.send
SentBy(log, e) == SelectSeq(log, LAMBDA r : r.by = e)
TimersOf(ts, e) == { t \in ts : t.owner = e }
\* the timer armed for the current event of e is pending
CurrentTimer(e) ==
    { t \in timers : t.owner = e /\ t.id = exchanges[e].handle
                                 /\ t.ev = exchanges[e].eventIndex }

OneEventConfig == << Event(ReqIdentity, TRUE, <<DescIdentity>>) >>

\* ------------------------------------------------------------------------
\* Claims about MIDIExchange
\* ------------------------------------------------------------------------

\* C1: a second start() on an exchange that is still running fails and
\* leaves the run alone: event index, remaining required responses, captured
\* responses and the armed timer are unchanged and nothing is sent.
C1_SecondStartFails ==
    [][\A e \in ExchangeIds :
        (Running(e) /\ StartStep(e)) =>
            /\ exchanges'[e].startThrown = exchanges[e].startThrown + 1
            /\ exchanges'[e].eventIndex = exchanges[e].eventIndex
            /\ exchanges'[e].required = exchanges[e].required
            /\ exchanges'[e].requiredNull = exchanges[e].requiredNull
            /\ exchanges'[e].responses = exchanges[e].responses
            /\ exchanges'[e].handle = exchanges[e].handle
            /\ timers' = timers
            /\ sent' = sent]_vars

\* C2: the "midimessage" subscription of an exchange is active exactly while
\* the exchange is Running: not before start(), not in a terminal state.
C2_SubscribedIffRunning ==
    \A e \in ExchangeIds : Constructed(e) => (Listening(e) <=> Running(e))

\* C3: a running exchange with one event and one required response that
\* receives a matching frame while the event's timer is pending ends Completed
\* with exactly that frame captured; when the timer expires instead it ends
\* Failed and is never resolved.
C3_OneEventOutcome ==
    [][\A e \in ExchangeIds :
        (/\ exchanges[e].exchangeEvents = OneEventConfig
         /\ Running(e)
         /\ CurrentTimer(e) # {})
        =>
        /\ \A data \in Frames :
              (Receive(data) /\ Matches(data, DescIdentity)) =>
                  /\ exchanges'[e].outcome = "Completed"
                  /\ exchanges'[e].responses = <<data>>
        /\ \A t \in CurrentTimer(e) :
              Timeout(t) =>
                  /\ exchanges'[e].outcome = "Failed"
                  /\ exchanges'[e].resolveCalls = 0]_vars

C5_OneOutcome ==
    \A e \in ExchangeIds :
        exchanges[e].startCalls <= 1 =>
            exchanges[e].resolveCalls + exchanges[e].rejectCalls <= 1

\* C6: start() on an exchange that has Completed or Failed fails, sends no
\* request and arms no timer.
C6_NoRestart ==
    [][\A e \in ExchangeIds :
        ((Completed(e) \/ Failed(e)) /\ StartStep(e)) =>
            /\ exchanges'[e].startThrown = exchanges[e].startThrown + 1
            /\ sent' = sent
            /\ timers' = timers]_vars

\* C7: start() on an exchange without exchange events always fails; such an
\* exchange never sends a request and never arms a timer.
C7_EmptyExchangeRejected ==
    \A e \in ExchangeIds :
        (Constructed(e) /\ exchanges[e].exchangeEvents = <<>>) =>
            /\ exchanges[e].startThrown = exchanges[e].startCalls
            /\ ~exchanges[e].hasPromise
            /\ SentBy(sent, e) = <<>>
            /\ TimersOf(timers, e) = {}
            /\ exchanges[e].handle = Undef

\* start() was called on an exchange without events
C7_Witness ==
    \E e \in ExchangeIds :
        /\ Constructed(e)
        /\ exchanges[e].exchangeEvents = <<>>
        /\ exchanges[e].startCalls > 0
        /\ exchanges[e].startThrown > 0

\* C8: two exchanges bound to the same device are never Running at the same
\* time.
C8_ExclusiveInput ==
    ~(Running(1) /\ Running(2))

\* ------------------------------------------------------------------------
\* Claims about MIDIChannelState
\* ------------------------------------------------------------------------
\* the step is a call of update() on slot k, with message lastMessage'
UpdateStep(k) ==
    /\ updateCount' = updateCount + 1
    /\ lastMessage' # <<>>
    /\ Addressed(lastMessage', k)
IsHoldRelease(m) ==
    /\ msgStatus(m) = ControlChange
    /\ msgController(m) = HoldController
    /\ msgValue(m) < HoldThreshold

\* C9: the held-notes queue of a channel state is non-empty only while its
\* controller 64 is at 64 or above, and it is empty right after a
\* Control-Change that sets controller 64 below 64.
C9_HeldOnlyUnderHold ==
    /\ [](\A k \in Slots :
            StateOf(channels, omni, k).heldNotes # <<>> =>
                StateOf(channels, omni, k).controller[HoldController] >= 64)
    /\ [][\A k \in Slots :
            (UpdateStep(k) /\ IsHoldRelease(lastMessage')) =>
                StateOf(channels', omni', k).heldNotes = <<>>]_vars

\* a Note-Off is waiting in the held queue of a channel whose pedal is down
C9_Witness ==
    \E k \in Slots :
        /\ StateOf(channels, omni, k).heldNotes # <<>>
        /\ holdOn(StateOf(channels, omni, k))

\* number of held Note-Offs of note n
HeldCount(cs, n) ==
    Cardinality({ i \in 1 .. Len(cs.heldNotes) : msgNote(cs.heldNotes[i]) = n })
\* queue q without its first c entries
DropFirst(q, c) ==
    IF c >= Len(q) THEN <<>> ELSE SubSeq(q, c + 1, Len(q))

\* channel 0 after NoteOn(60), ControlChange(64, 127)
AfterHoldOn ==
    [NewChannelState(0) EXCEPT !.activeNotes[60] = <<NoteOnMsg(0, 60, 100)>>,
                               !.controller[HoldController] = 127]
\* ... and after the NoteOff(60) that follows
AfterHeldNoteOff ==
    [AfterHoldOn EXCEPT !.heldNotes = <<NoteOffMsg(0, 60)>>]

\* C10: a Note-Off received while controller 64 is at 64 or above leaves the
\* note queues alone and is appended to the held queue; a queue of a channel
\* with held Note-Offs shrinks only by a Control-Change that sets controller
\* 64 below 64, which removes one occurrence per held Note-Off. After
\* NoteOn(60), CC(64,127), NoteOff(60) note 60 has one occurrence, after
\* CC(64,0) none.
C10_SustainDefersNoteOff ==
    [][\A k \in Slots :
        LET cs == StateOf(channels, omni, k)
            cs2 == StateOf(channels', omni', k)
            m == lastMessage'
        IN  UpdateStep(k) =>
            /\ (msgStatus(m) = NoteOff /\ cs.controller[HoldController] >= 64) =>
                  /\ cs2.activeNotes = cs.activeNotes
                  /\ cs2.heldNotes = Append(cs.heldNotes, m)
            /\ IsHoldRelease(m) =>
                  /\ \A n \in Notes :
                        cs2.activeNotes[n] = DropFirst(cs.activeNotes[n], HeldCount(cs, n))
                  /\ cs2.heldNotes = <<>>
            /\ (/\ cs.heldNotes # <<>>
                /\ \E n \in Notes : Len(cs2.activeNotes[n]) < Len(cs.activeNotes[n]))
                  => IsHoldRelease(m)
            /\ (cs = AfterHoldOn /\ m = NoteOffMsg(0, 60)) =>
                  Len(cs2.activeNotes[60]) = 1
            /\ (cs = AfterHeldNoteOff /\ m = ControlChangeMsg(0, HoldController, 0)) =>
                  Len(cs2.activeNotes[60]) = 0]_vars

\* channel 0 after NoteOn(60), CC(64,127), NoteOff(60): the Note-Off is held
C10_Witness ==
    channels[0] = AfterHeldNoteOff

\* C11 as stated: while controller 64 has stayed below 64, after j Note-Ons
\* and k <= j Note-Offs of a note its queue holds exactly the last j - k
\* Note-Ons, in arrival order.
C11_QueueIsLastOns ==
    \A k \in Slots : \A n \in Notes :
        (~noteLog[k].hold /\ noteLog[k].offs[n] <= Len(noteLog[k].ons[n])) =>
            StateOf(channels, omni, k).activeNotes[n]
                = DropFirst(noteLog[k].ons[n], noteLog[k].offs[n])

\* C11, amended: the same, provided no Note-Off of the note arrived while its
\* queue was empty (a Note-Off on an empty queue removes nothing and is not
\* set against a later Note-On); NoteOn(60), NoteOn(60), NoteOff(60) leaves
\* the second Note-On only.
C11_FifoRetrigger ==
    \A k \in Slots : \A n \in Notes :
        (~noteLog[k].hold /\ ~noteLog[k].stray[n]) =>
            /\ noteLog[k].offs[n] <= Len(noteLog[k].ons[n])
            /\ StateOf(channels, omni, k).activeNotes[n]
                = DropFirst(noteLog[k].ons[n], noteLog[k].offs[n])
            /\ Len(StateOf(channels, omni, k).activeNotes[n])
                = Len(noteLog[k].ons[n]) - noteLog[k].offs[n]

\* channel 0 after NoteOn(60, 64), NoteOn(60, 100), NoteOff(60): one
\* occurrence left, the later Note-On
C11_Witness ==
    /\ noteLog[0].ons[60] = <<NoteOnMsg(0, 60, 64), NoteOnMsg(0, 60, 100)>>
    /\ noteLog[0].offs[60] = 1
    /\ ~noteLog[0].hold
    /\ channels[0].activeNotes[60] = <<NoteOnMsg(0, 60, 100)>>

\* the number of outstanding occurrences of note n over the channels in S
RECURSIVE Outstanding(_, _, _)
Outstanding(chs, S, n) ==
    IF S = {} THEN 0
    ELSE LET ch == CHOOSE c \in S : TRUE
         IN Len(chs[ch].activeNotes[n]) + Outstanding(chs, S \ {ch}, n)

\* C12: after any sequence of channel messages, for every note the number of
\* outstanding occurrences in omni.activeNotes equals the sum of that note's
\* outstanding occurrences over the channels.
C12_OmniIsSumOfChannels ==
    \A n \in Notes :
        Len(omni.activeNotes[n]) = Outstanding(channels, ChannelIds, n)

\* C13: reset() is idempotent on a channel: from any reachable channel state,
\* the state after reset(); reset() equals the state after one reset(), in
\* every field.
C13_ResetIdempotent ==
    \A k \in Slots :
        reset(reset(StateOf(channels, omni, k))) = reset(StateOf(channels, omni, k))

\* a channel state that reset() changes in its note queues, its held queue
\* and its controller table
C13_Witness ==
    \E k \in Slots :
        LET cs == StateOf(channels, omni, k)
        IN /\ Len(cs.heldNotes) >= 2
           /\ \E n \in Notes : cs.activeNotes[n] # <<>>
           /\ holdOn(cs)
           /\ reset(cs) # cs

\* the latest call was MIDIDeviceState.reset()
AfterReset == updateCount > 0 /\ lastMessage = <<>>

\* C14: MIDIDeviceState.reset() puts every channel and the omni channel back
\* to its post-construction values (pressure 0, pitch bend 0, note queues and
\* held queue empty, controller and key-pressure entries 0) and leaves each
\* channel's index unchanged.
C14_DeviceResetRestoresConstruction ==
    AfterReset =>
        \A k \in Slots :
            /\ StateOf(channels, omni, k) = NewChannelState(k)
            /\ StateOf(channels, omni, k).channel = k

\* reset() has just been called on a device state with changed channels
C14_Witness ==
    /\ resetDirty
    /\ lastMessage = <<>>
    /\ updateCount >= 2

\* the call of fn has returned
Returned(fn) == call.fn = fn /\ call.done

\* C15: with a one-byte manufacturer id m and no header, a frame
\* [0xF0, m, d, ...] is accepted for every d when deviceId is omitted or 0x7F,
\* and for any other deviceId iff d = deviceId.
C15_DeviceIdWildcard ==
    (/\ Returned("validateSysEx")
     /\ Len(call.args.id) = 1
     /\ call.args.header = <<>>
     /\ Len(call.args.data) >= 3
     /\ call.args.data[1] = 240
     /\ call.args.data[2] = call.args.id[1])
    => call.out = (\/ call.args.deviceId = Undef
                   \/ call.args.deviceId = 127
                   \/ call.args.data[3] = call.args.deviceId)

\* id 0x43, deviceId 0x10, no header: the frame with device byte 0x20 has
\* been rejected
C15_Witness ==
    /\ Returned("validateSysEx")
    /\ call.args.id = <<67>>
    /\ call.args.header = <<>>
    /\ call.args.deviceId = 16
    /\ call.args.data = <<240, 67, 32, 6>>
    /\ call.out = FALSE

\* what the claim requires of a frame, by 1-based position: byte 0, the id
\* bytes that follow it, the device-id byte after the id, the header bytes
\* after the device-id byte
FrameStartsSysEx(data) == Len(data) >= 1 /\ data[1] = 240
FrameHasId(data, id) ==
    /\ Len(data) >= 1 + Len(id)
    /\ \A p \in 1 .. Len(id) : data[1 + p] = id[p]
FrameHasDevice(data, id, deviceId) ==
    \/ deviceId = Undef
    \/ deviceId = 127
    \/ Len(data) >= Len(id) + 2 /\ data[Len(id) + 2] = deviceId
FrameHasHeader(data, id, header) ==
    \A p \in 1 .. Len(header) :
        \/ header[p] = 255
        \/ Len(data) >= Len(id) + 2 + p /\ data[Len(id) + 2 + p] = header[p]

\* C16: validateSysEx returns false when byte 0 is not 0xF0 and when the
\* manufacturer id differs (1 byte for a numeric id, bytes 1..3 for a
\* 3-element id); with a header supplied it returns true iff, in addition to
\* the other checks, every header byte other than 0xFF equals the frame byte
\* at the same offset from the byte after the device-id byte.
C16_ValidateSysExRules ==
    Returned("validateSysEx") =>
        /\ ~FrameStartsSysEx(call.args.data) => call.out = FALSE
        /\ ~FrameHasId(call.args.data, call.args.id) => call.out = FALSE
        /\ call.args.header # <<>> =>
              call.out = (/\ FrameStartsSysEx(call.args.data)
                          /\ FrameHasId(call.args.data, call.args.id)
                          /\ FrameHasDevice(call.args.data, call.args.id, call.args.deviceId)
                          /\ FrameHasHeader(call.args.data, call.args.id, call.args.header))

\* a frame with the extended id 00 20 10 and header [0xFF, 0x02] has been
\* accepted
C16_Witness ==
    /\ Returned("validateSysEx")
    /\ call.args.id = <<0, 32, 16>>
    /\ call.args.deviceId = 16
    /\ call.args.header = <<255, 2>>
    /\ call.args.data = <<240, 0, 32, 16, 16, 6, 2>>
    /\ call.out = TRUE

\* C17: the universal system-exclusive builders return 0xF0, then 0x7E
\* (non-realtime builder) or 0x7F (realtime builder), then deviceId, subId1,
\* the optional subId2 and the optional payload bytes, in that order.
C17_UniversalSysExFrames ==
    /\ Returned("universalNRTSysEx") =>
          call.out = <<240, 126, call.args.deviceId, call.args.sid1>>
                        \o (IF call.args.sid2 = Undef THEN <<>> ELSE <<call.args.sid2>>)
                        \o call.args.data
    /\ Returned("universalRTSysEx") =>
          call.out = <<240, 127, call.args.deviceId, call.args.sid1, call.args.sid2>>
                        \o call.args.data

\* C18: type(b) is SysEx iff b = 0xF0, System iff b is another byte with
\* high nibble 0xF, Channel otherwise; status(b) is b when its high nibble is
\* 0xF and b with the low nibble cleared otherwise; both are defined for
\* every byte.
C18_Classification ==
    /\ Returned("type") =>
          /\ call.out \in {"SysEx", "System", "Channel"}
          /\ (call.out = "SysEx") = (call.args.firstByte = 240)
          /\ (call.out = "System") = (call.args.firstByte \in 241 .. 255)
          /\ (call.out = "Channel") = (call.args.firstByte \in 0 .. 239)
    /\ Returned("status") =>
          call.out = IF call.args.firstByte >= 240
                     THEN call.args.firstByte
                     ELSE 16 * (call.args.firstByte \div 16)

\* type(0xF0) has returned SysEx
C18_Witness ==
    /\ Returned("type")
    /\ call.args.firstByte = 240
    /\ call.out = "SysEx"

\* C19: for every channel, note and velocity, with the zero-velocity
\* conversion on or off, the message built from noteOn(ch, note, vel) has type
\* Channel, channel ch, note note and velocity vel.
C19_NoteOnRoundTrip ==
    Returned("makeNoteOn") =>
        /\ msgType(call.out) = "Channel"
        /\ msgChannel(call.out) = call.args.channel
        /\ msgNote(call.out) = call.args.note
        /\ msgVelocity(call.out) = call.args.velocity

\* a Note-On of channel 5 with velocity 0 has been built with the conversion
\* on: the frame carries the Note-Off status of channel 5
C19_Witness ==
    /\ Returned("makeNoteOn")
    /\ call.args.convert
    /\ call.args.channel = 5
    /\ call.args.note = 60
    /\ call.args.velocity = 0
    /\ call.out = <<133, 60, 0>>

\* C20: the frame encoding a pitch-bend value v in -8192 .. 8191 for a
\* channel decodes to pitchBend = v.
C20_PitchBendRoundTrip ==
    Returned("pitchBend") => msgPitchBend(call.out) = call.args.value

\* the lowest bend value on channel 15 has been encoded
C20_Witness ==
    /\ Returned("pitchBend")
    /\ call.args.channel = 15
    /\ call.args.value = 0 - 8192
    /\ call.out = <<239, 0, 0>>

\* the frame is one the zero-velocity conversion applies to: exactly 3 bytes,
\* a Note-On status byte, last byte 0
IsZeroVelNoteOn(data) ==
    Len(data) = 3 /\ data[1] \in 144 .. 159 /\ data[3] = 0

\* C21: with convertZeroVelToNoteOff set, a message constructed from a 3-byte
\* frame with Note-On status and velocity 0 has status NoteOff and the frame's
\* channel, note and velocity; every other frame, and every frame when the
\* flag is not set, is unchanged by construction.
C21_ZeroVelocityConversion ==
    Returned("MIDIMessage") =>
        IF call.args.convert /\ IsZeroVelNoteOn(call.args.data)
        THEN /\ msgStatus(call.out) = 128
             /\ msgChannel(call.out) = call.args.data[1] - 144
             /\ msgNote(call.out) = call.args.data[2]
             /\ msgVelocity(call.out) = 0
             /\ Len(call.out) = 3
        ELSE call.out = call.args.data

\* a Note-On of channel 9 with velocity 0 has been constructed with the flag
\* set and reads as a Note-Off of channel 9
C21_Witness ==
    /\ Returned("MIDIMessage")
    /\ call.args.convert
    /\ call.args.data = <<153, 60, 0>>
    /\ call.out = <<137, 60, 0>>

\* the Control-Change triplet at position p (0-based) of a builder's result
Triplet(out, p) == SubSeq(out, 3 * p + 1, 3 * p + 3)
\* the triplet is a Control Change of the channel for the controller
IsCC(t, channel, controller) ==
    Len(t) = 3 /\ t[1] = 176 + channel /\ t[2] = controller

\* C22: the RPN/NRPN builders return Control-Change triplets of the channel
\* in the order parameter MSB (101 / 99), parameter LSB (100 / 98), Data-Entry
\* MSB (6) and, in the 14-bit form only, Data-Entry LSB (38): 9 bytes for
\* rpn7/nrpn7, 12 for rpn14/nrpn14; rpnNull returns the RPN MSB and LSB
\* triplets with value 0x7F.
C22_ParameterNumberFrames ==
    /\ (call.fn \in {"rpn7", "rpn14"} /\ call.done) =>
          /\ IsCC(Triplet(call.out, 0), call.args.channel, 101)
          /\ IsCC(Triplet(call.out, 1), call.args.channel, 100)
          /\ IsCC(Triplet(call.out, 2), call.args.channel, 6)
    /\ (call.fn \in {"nrpn7", "nrpn14"} /\ call.done) =>
          /\ IsCC(Triplet(call.out, 0), call.args.channel, 99)
          /\ IsCC(Triplet(call.out, 1), call.args.channel, 98)
          /\ IsCC(Triplet(call.out, 2), call.args.channel, 6)
    /\ (call.fn \in {"rpn7", "nrpn7"} /\ call.done) => Len(call.out) = 9
    /\ (call.fn \in {"rpn14", "nrpn14"} /\ call.done) =>
          /\ Len(call.out) = 12
          /\ IsCC(Triplet(call.out, 3), call.args.channel, 38)
    /\ Returned("rpnNull") =>
          call.out = <<176 + call.args.channel, 101, 127,
                       176 + call.args.channel, 100, 127>>

\* nrpn14 has returned four triplets for channel 3
C22_Witness ==
    /\ Returned("nrpn14")
    /\ call.args.channel = 3
    /\ call.args.param = 128
    /\ call.args.value = 16383
    /\ call.out = <<179, 99, 1, 179, 98, 0, 179, 6, 127, 179, 38, 127>>

\* C23: for a system-exclusive frame manufacturerId is byte 1, or bytes 1..3
\* when byte 1 is 0x00, and deviceId is the byte right after the id bytes
\* (byte 2, or byte 4 after an extended id); for a frame whose byte 0 is not
\* 0xF0 both are undefined.
C23_SysExIds ==
    /\ (Returned("manufacturerId") /\ Len(call.args.data) >= 5) =>
          call.out = IF call.args.data[1] # 240 THEN <<>>
                     ELSE IF call.args.data[2] = 0 THEN SubSeq(call.args.data, 2, 4)
                     ELSE <<call.args.data[2]>>
    /\ (Returned("deviceId") /\ Len(call.args.data) >= 5) =>
          call.out = IF call.args.data[1] # 240 THEN Undef
                     ELSE IF call.args.data[2] = 0 THEN call.args.data[5]
                     ELSE call.args.data[3]
    /\ (call.fn \in {"manufacturerId", "deviceId"} /\ call.done
            /\ Len(call.args.data) \in 3 .. 4 /\ call.args.data[2] # 0) =>
          call.out = IF call.args.data[1] # 240
                     THEN (IF call.fn = "deviceId" THEN Undef ELSE <<>>)
                     ELSE (IF call.fn = "deviceId" THEN call.args.data[3]
                                                   ELSE <<call.args.data[2]>>)

\* deviceId of a frame with the extended id 00 20 10 has returned byte 4
C23_Witness ==
    /\ Returned("deviceId")
    /\ call.args.data = <<240, 0, 32, 16, 127, 6>>
    /\ call.out = 127

\* the exchange has been started by one start() call that returned a promise
StartedOnce(e) == exchanges[e].startCalls = 1 /\ exchanges[e].startThrown = 0

\* C24, for an exchange started once: at most one of its timers is pending at
\* any time, a pending timer is the one armed for the current event (a timer
\* armed for an earlier event has been cancelled), and none is pending once
\* the exchange has Completed.
C24_OneTimerPerEvent ==
    \A e \in ExchangeIds :
        StartedOnce(e) =>
            /\ Cardinality(TimersOf(timers, e)) <= 1
            /\ \A t \in TimersOf(timers, e) :
                  /\ t.ev = exchanges[e].eventIndex
                  /\ t.id = exchanges[e].handle
            /\ Completed(e) => TimersOf(timers, e) = {}

\* event numbers of the requests an exchange has sent, in sending order
SentEvents(e) == [ j \in 1 .. Len(SentBy(sent, e)) |-> SentBy(sent, e)[j].ev ]

\* C25, for an exchange started once: its requests are sent in event
\* order, each once (the j-th request sent is the request of event j - 1, and
\* no request is sent for an event beyond the current one); once Completed,
\* every event's request has been sent once.
C25_RequestsInEventOrder ==
    \A e \in ExchangeIds :
        StartedOnce(e) =>
            /\ \A j \in 1 .. Len(SentEvents(e)) : SentEvents(e)[j] = j - 1
            /\ Len(SentEvents(e)) <= exchanges[e].eventIndex + 1
            /\ Completed(e) => Len(SentEvents(e)) = Len(exchanges[e].exchangeEvents)

\* the exchange is waiting for required responses of its current event
AwaitsResponses(e) ==
    /\ Listening(e)
    /\ ~exchanges[e].requiredNull
    /\ exchanges[e].required # <<>>

\* positions of the remaining descriptors that accept the frame
Accepting(e, data) ==
    { k \in 1 .. Len(exchanges[e].required) : Matches(data, exchanges[e].required[k]) }
Lowest(S) == CHOOSE k \in S : \A m \in S : k <= m

ArmedWithoutRequired(e) ==
    /\ Running(e)
    /\ Listening(e)
    /\ exchanges[e].handle # Undef
    /\ (exchanges[e].requiredNull \/ exchanges[e].required = <<>>)

MatchesAsSupplied(data, req) ==
    validateSysEx(data,
                  IF req.id = <<>> THEN DeviceManufacturerId ELSE req.id,
                  IF req.deviceId = Undef THEN DeviceDeviceId ELSE req.deviceId,
                  req.header)

\* C28: a frame is captured for a waiting exchange exactly when a remaining
\* descriptor accepts it with the ids the descriptor supplies (0x00
\* included), the device's manufacturerId and deviceId being used only for
\* ids the descriptor omits.
C28_DescriptorDefaults ==
    [][\A e \in ExchangeIds, data \in Frames :
        (AwaitsResponses(e) /\ Receive(data)) =>
            ((exchanges'[e].responses # exchanges[e].responses) <=>
                (\E k \in 1 .. Len(exchanges[e].required) :
                    MatchesAsSupplied(data, exchanges[e].required[k])))]_vars

\* frames event j of an exchange captures when it completes
Captures(ev) == IF ev.present THEN Len(ev.items) ELSE 1
RECURSIVE CapturedBefore(_, _)
CapturedBefore(events, i) ==
    IF i = 0 THEN 0 ELSE CapturedBefore(events, i - 1) + Captures(events[i])

\* C29, for an exchange started once: when event i has failed by timeout
\* with some but not all of its required responses captured, the responses
\* the exchange exposes are those of events 0..i-1 and hold no frame captured
\* for event i.
C29_PartialResponsesDiscarded ==
    \A e \in ExchangeIds :
        LET x == exchanges[e]
            i == x.eventIndex
        IN  (/\ StartedOnce(e)
             /\ Failed(e)
             /\ i < Len(x.exchangeEvents)
             /\ ~x.requiredNull
             /\ Len(x.required) > 0
             /\ Len(x.required) < Len(x.exchangeEvents[i + 1].items))
            => Len(x.responses) <= CapturedBefore(x.exchangeEvents, i)

\* C30: when an update sets controller 64 below 64 on a channel state with
\* held Note-Offs h1..hk, each note's queue loses its oldest entries, one per
\* held Note-Off of that note (as far as it has entries), the held queue is
\* emptied, and the observer is told h1, ..., hk, each once and in that
\* order, and then the Control-Change; a Note-Off that arrives while
\* controller 64 is at 64 or above is queued and the observer is told
\* nothing during that update.
C30_HeldOffsNotifiedInOrder ==
    [][\A k \in Slots :
        UpdateStep(k) =>
            LET cs == StateOf(channels, omni, k)
                after == StateOf(channels', omni', k)
                m == lastMessage'
                h == cs.heldNotes
            IN  /\ IsHoldRelease(m) =>
                    /\ Len(notified'[k]) = Len(h) + 1
                    /\ \A i \in 1 .. Len(h) : notified'[k][i] = h[i]
                    /\ notified'[k][Len(h) + 1] = m
                    /\ after.heldNotes = <<>>
                    /\ \A n \in Notes :
                        after.activeNotes[n]
                            = DropFirst(cs.activeNotes[n], HeldCount(cs, n))
                /\ (msgStatus(m) = NoteOff /\ holdOn(cs)) =>
                    /\ notified'[k] = <<>>
                    /\ after.heldNotes = Append(h, m)
                    /\ after.activeNotes = cs.activeNotes]_vars

\* channel 0 has just released two held Note-Offs of different notes: its
\* observer was told NoteOff(60), NoteOff(61), then the Control-Change
C30_Witness ==
    /\ notified[0] = <<NoteOffMsg(0, 60), NoteOffMsg(0, 61),
                       ControlChangeMsg(0, HoldController, 0)>>
    /\ channels[0].heldNotes = <<>>
    /\ lastMessage = ControlChangeMsg(0, HoldController, 0)

\* C31: an update with a System or SysEx message (first byte 0xF0 or above)
\* leaves all channel states and the omni state as they were, and so does an
\* update with a Program-Change, a channel status without a handler; the
\* call completes in both cases.
C31_UnrecognizedIsNoOp ==
    [][(updateCount' = updateCount + 1 /\ lastMessage' # <<>>) =>
        LET m == lastMessage'
        IN  (m[1] >= 240 \/ HiNibble(m[1]) = ProgramChange) =>
                (channels' = channels /\ omni' = omni)]_vars

\* a Program-Change has just been passed to a device state whose channel 0
\* holds a sounding note
C31_Witness ==
    /\ lastMessage = <<ProgramChange + 0, 5>>
    /\ channels[0].activeNotes[60] # <<>>
    /\ omni.activeNotes[60] # <<>>

\* C32: for every pitch-bend frame whose bytes 1 and 2 are in 0..127 the
\* pitchBend getter returns byte2 * 128 + byte1 - 8192, a value in
\* -8192 .. 8191, and it returns 0 for byte1 = 0, byte2 = 64.
C32_PitchBendDecode ==
    Returned("pitchBendOf") =>
        LET b1 == call.args.data[2]
            b2 == call.args.data[3]
        IN  /\ call.out = b2 * 128 + b1 - 8192
            /\ call.out >= 0 - 8192
            /\ call.out <= 8191
            /\ (b1 = 0 /\ b2 = 64) => call.out = 0

\* the centre frame E0 00 40 has been decoded
C32_Witness ==
    /\ Returned("pitchBendOf")
    /\ call.args.data = <<PitchBend, 0, 64>>
    /\ call.out = 0

\* C33: a frame delivered while an exchange is constructed but start() has
\* not been called has no effect on it: its captured responses and event
\* index stay as they are, it sends no request and arms no timer.
C33_IdleIgnoresFrames ==
    [][\A e \in ExchangeIds :
        (/\ Constructed(e)
         /\ exchanges[e].startCalls = 0
         /\ frameCount' = frameCount + 1) =>
            /\ exchanges'[e].responses = exchanges[e].responses
            /\ exchanges'[e].eventIndex = exchanges[e].eventIndex
            /\ SentBy(sent', e) = SentBy(sent, e)
            /\ TimersOf(timers', e) = TimersOf(timers, e)]_vars

\* C34: an exchange that is running after a successful start() eventually
\* reaches Completed or Failed, whatever frames arrive, provided armed timers
\* fire unless they are cancelled.
C34_StartedExchangeTerminates ==
    Running(1) ~> (Completed(1) \/ Failed(1))

\* an exchange started once ended Failed by the timer of its first event
\* although no frame ever arrived
C34_Witness ==
    /\ StartedOnce(1)
    /\ Failed(1)
    /\ frameCount = 0
    /\ exchanges[1].eventIndex = 0
    /\ exchanges[1].rejectCalls = 1

\* C35: while the current event of a subscribed exchange still has required
\* responses, a frame that none of the remaining descriptors accepts leaves
\* the exchange as it was: captured responses, remaining descriptors and
\* event index are unchanged, no request is sent, and the timers of the
\* exchange and its timer handle are the same, so the event's timer is
\* neither cancelled nor restarted.
C35_UnmatchedFrameIgnored ==
    [][\A e \in ExchangeIds, data \in Frames :
        (AwaitsResponses(e) /\ Accepting(e, data) = {} /\ Receive(data)) =>
            /\ exchanges'[e] = exchanges[e]
            /\ SentBy(sent', e) = SentBy(sent, e)
            /\ TimersOf(timers', e) = TimersOf(timers, e)
            /\ Listening(e)']_vars

\* an exchange started once is still waiting for the identity reply with its
\* timer pending after a frame arrived that its descriptor does not accept
C35_Witness ==
    \E e \in ExchangeIds :
        /\ StartedOnce(e)
        /\ Running(e)
        /\ Listening(e)
        /\ exchanges[e].exchangeEvents = OneEventConfig
        /\ exchanges[e].required = <<DescIdentity>>
        /\ exchanges[e].responses = <<>>
        /\ CurrentTimer(e) # {}
        /\ frameCount >= 1

\* C36, for an exchange started once: when it is Completed, the number of
\* captured responses is the sum over its events of the number of required
\* descriptors, an event without `response` counting 1.
C36_CapturedCount ==
    \A e \in ExchangeIds :
        (StartedOnce(e) /\ Completed(e)) =>
            Len(exchanges[e].responses)
                = CapturedBefore(exchanges[e].exchangeEvents,
                                 Len(exchanges[e].exchangeEvents))

\* C37: an update with a channel message addressed to channel c leaves the
\* state of every other channel as it was, in every field.
C37_OtherChannelsUntouched ==
    [][(updateCount' = updateCount + 1 /\ lastMessage' # <<>>
            /\ lastMessage'[1] < 240) =>
        \A ch \in ChannelIds :
            ch # LoNibble(lastMessage'[1]) => channels'[ch] = channels[ch]]_vars

\* a Note-On has just been applied to channel 0 while channel 1 holds a
\* sounding note of its own and nothing of channel 0's
C37_Witness ==
    /\ lastMessage = NoteOnMsg(0, 60, 100)
    /\ channels[0].activeNotes[60] = <<NoteOnMsg(0, 60, 100)>>
    /\ channels[1].activeNotes[61] = <<NoteOnMsg(1, 61, 64)>>
    /\ channels[1].activeNotes[60] = <<>>
    /\ Len(omni.activeNotes[60]) = 1
    /\ Len(omni.activeNotes[61]) = 1

\* C38: during an update with a channel message m for channel c the device
\* observer is called exactly once with m, unless m is a Note-Off arriving
\* while c's controller 64 is at 64 or above: then it is not called during
\* that update and m waits in c's held queue; at the Control-Change that
\* takes controller 64 below 64 it is called once for each waiting Note-Off,
\* in order, and once for the Control-Change, and the held queue is emptied.
\* The omni state's handling of the same message adds no call.
C38_DeviceObserverOnce ==
    [][(updateCount' = updateCount + 1 /\ lastMessage' # <<>>
            /\ lastMessage'[1] < 240) =>
        LET m == lastMessage'
            c == LoNibble(m[1])
            h == channels[c].heldNotes
        IN  IF HiNibble(m[1]) = NoteOff /\ channels[c].controller[HoldController] >= 64
            THEN /\ deviceOnMessage' = <<>>
                 /\ channels'[c].heldNotes = Append(h, m)
            ELSE IF IsHoldRelease(m)
            THEN /\ deviceOnMessage' = h \o <<m>>
                 /\ channels'[c].heldNotes = <<>>
            ELSE /\ deviceOnMessage' = <<m>>
                 /\ channels'[c].heldNotes = h]_vars

\* the pedal of channel 1 has just been released with one Note-Off waiting:
\* the device observer got the Note-Off and the Control-Change once each,
\* although the omni state released the same Note-Off too
C38_Witness ==
    /\ lastMessage = ControlChangeMsg(1, HoldController, 63)
    /\ deviceOnMessage = <<NoteOffMsg(1, 61), ControlChangeMsg(1, HoldController, 63)>>
    /\ notified[OmniChannel] = <<NoteOffMsg(1, 61), ControlChangeMsg(1, HoldController, 63)>>

\* C39: for a parameter number p and a value v in 0..16383 the 12 bytes of
\* rpn14 / nrpn14 have every data byte in 0..127, byte[2] * 128 + byte[5] = p
\* and byte[8] * 128 + byte[11] = v (bytes counted from 0); for rpn7 / nrpn7
\* and v in 0..127, byte[8] = v.
C39_ParameterRoundTrip ==
    /\ (call.fn \in {"rpn14", "nrpn14"} /\ call.done) =>
          /\ \A i \in {2, 3, 5, 6, 8, 9, 11, 12} : call.out[i] \in 0 .. 127
          /\ call.out[3] * 128 + call.out[6] = call.args.param
          /\ call.out[9] * 128 + call.out[12] = call.args.value
    /\ (call.fn \in {"rpn7", "nrpn7"} /\ call.done /\ call.args.value \in 0 .. 127) =>
          /\ \A i \in {2, 3, 5, 6, 8, 9} : call.out[i] \in 0 .. 127
          /\ call.out[9] = call.args.value

\* rpn14 has split parameter 300 and value 16383 into 7-bit halves
C39_Witness ==
    /\ Returned("rpn14")
    /\ call.args.param = 300
    /\ call.args.value = 16383
    /\ call.out = <<176, 101, 2, 176, 100, 44, 176, 6, 127, 176, 38, 127>>

\* the latest step was a call or event applied to the connector
ConnectorStep == connector'.opCount = connector.opCount + 1

\* C40: after every call and event the "midimessage" handler is registered
\* on no port other than the current input; a frame is sent only by the
\* handler of a frame from the current input, once, to the bound output,
\* while that output's state is "connected" and the handler is registered on
\* the current input; a frame
\* for which onProcessMessage returns null (active sensing under the filter)
\* is not sent; disconnect() leaves input and output null with no listener
\* registered, and nothing is sent while they are null.
C40_ForwardsOnlyWhileConnected ==
    [][ConnectorStep =>
            /\ connector'.messageListeners \subseteq {connector'.input} \ {NoPort}
            /\ (connector'.forwarded # connector.forwarded) =>
                  /\ connector'.forwarded = connector.forwarded + 1
                  /\ connector'.lastOp = "message"
                  /\ connector.output # NoPort
                  /\ connector.portState[connector.output] = "connected"
                  /\ connector.messageListeners = {connector.input}
                  /\ connector'.lastFrom = connector.input
                  /\ connector'.lastSent.port = connector.output
                  /\ ~(connector.onProcessMessage = "dropSensing"
                          /\ connector'.lastData = <<254>>)
            /\ connector'.lastOp = "disconnect" =>
                  /\ connector'.input = NoPort
                  /\ connector'.output = NoPort
                  /\ connector'.messageListeners = {}
                  /\ connector'.inputStateListeners = {}
                  /\ connector'.outputStateListeners = {}
            /\ (connector.input = NoPort /\ connector.output = NoPort) =>
                  connector'.forwarded = connector.forwarded]_vars

\* after a connect() to input 1 and a later connect() to input 2, a Note-On
\* with velocity 0 from input 2 has been forwarded to the output through the
\* filter
C40_Witness ==
    /\ connector.lastOp = "message"
    /\ connector.lastFrom = 2
    /\ connector.input = 2
    /\ connector.forwarded = 1
    /\ connector.onProcessMessage = "dropSensing"
    /\ connector.lastSent = [ port |-> 3, data |-> <<128, 60, 0>> ]
    /\ connector.awaitingInput > 0

====
